---- MODULE Spec2Model ----
(***************************************************************************)
(* HealiFy front end: the session store (AuthContext.jsx), the route guard *)
(* (ProtectedRoute.jsx), the sign-in page (Login.jsx), the profile page    *)
(* (Profile) and the assessment screen (PredictionForm.jsx) as one state   *)
(* machine.  One action per handler or effect.  React state updates made   *)
(* by one handler are committed together (automatic batching), and the     *)
(* render that follows (route matching, ProtectedRoute, mount / unmount)   *)
(* is part of the action.  A useEffect is a step of its own that runs      *)
(* before any later event is handled.                                      *)
(*                                                                         *)
(* JavaScript objects are functions from their own keys to values: a key   *)
(* that is absent from the object is absent from the DOMAIN.  JavaScript   *)
(* null is the value Null; a string that may also be null (the token) is   *)
(* the record [jwt |-> s], so that it can be compared with Null.           *)
(***************************************************************************)
EXTENDS Integers, Sequences, FiniteSets, TLC

VARIABLES
    isAuthenticated,  \* AuthProvider state (AuthContext.jsx:30)
    user,             \* AuthProvider state (AuthContext.jsx:31)
    token,            \* AuthProvider state (AuthContext.jsx:32)
    loading,          \* AuthProvider state (AuthContext.jsx:33)
    pathname,         \* router location.pathname
    locState,         \* router location.state
    currentStep,      \* PredictionForm state (PredictionForm.jsx:30)
    symptoms,         \* PredictionForm state (PredictionForm.jsx:31)
    prediction,       \* PredictionForm state (PredictionForm.jsx:32)
    formLoading,      \* PredictionForm state `loading` (PredictionForm.jsx:33)
    initPending,      \* the PredictionForm useEffect on [diseaseType] is due
    loginReqs,        \* authAPI.login calls awaiting their response
    registerReqs,     \* authAPI.register calls awaiting their response
    profileReqs,      \* profileAPI.updateProfile calls awaiting their response
    predReqs,         \* predictionsAPI.getPrediction calls awaiting their response
    toasts,           \* notifications raised by the last step
    crashed,          \* an error thrown while rendering unmounted the application
    lastOp            \* the handler or effect that made the last step, and its outcome

vars == <<isAuthenticated, user, token, loading, pathname, locState, currentStep,
          symptoms, prediction, formLoading, initPending, loginReqs, registerReqs,
          profileReqs,
          predReqs, toasts, crashed, lastOp>>

authVars == <<isAuthenticated, user, token, loading>>
formVars == <<currentStep, symptoms, prediction, formLoading, initPending>>

-----------------------------------------------------------------------------
(* Bounds of the model *)

\* remote calls (login, profile update, scoring) that may await their response at once
MaxInFlight == 1
\* sliders of a form the user moves: those of its first MaxMoved questions
MaxMoved == 2

-----------------------------------------------------------------------------
(* JavaScript values *)

Null == [null |-> TRUE]

\* ToBoolean of an object reference that is an object or null
Truthy(v) == v # Null

\* ToBoolean(obj[key]) for a numeric property: undefined and 0 are falsy
TruthyNum(obj, key) == key \in DOMAIN obj /\ obj[key] # 0

\* { ...a, ...b }: spreading null or undefined adds nothing
Spread(a, b) ==
    LET A == IF a = Null THEN <<>> ELSE a
        B == IF b = Null THEN <<>> ELSE b
    IN [k \in DOMAIN A \cup DOMAIN B |-> IF k \in DOMAIN B THEN B[k] ELSE A[k]]

\* obj.profile of a non-null obj; Null stands for undefined here
ProfileOf(u) == IF "profile" \in DOMAIN u THEN u["profile"] ELSE Null

\* A string the user types is the sequence of its characters.

\* the characters \s matches, among those used here
Spaces == {" "}

\* /\S+@\S+\.\S+/.test(text): somewhere in the text a non-space character, an
\* '@', one or more non-space characters, a '.', and a non-space character
EmailPattern(text) ==
    \E i, j \in DOMAIN text :
        /\ 1 < i /\ i + 1 < j /\ j < Len(text)
        /\ text[i - 1] \notin Spaces
        /\ text[i] = "@"
        /\ \A k \in (i + 1)..(j - 1) : text[k] \notin Spaces
        /\ text[j] = "."
        /\ text[j + 1] \notin Spaces

\* the characters /[A-Z]/, /[a-z]/ and /[!@#$%^&*(),.?":{}|<>]/ match
UpperCase ==
    {"A", "B", "C", "D", "E", "F", "G", "H", "I", "J", "K", "L", "M", "N", "O", "P",
     "Q", "R", "S", "T", "U", "V", "W", "X", "Y", "Z"}

LowerCase ==
    {"a", "b", "c", "d", "e", "f", "g", "h", "i", "j", "k", "l", "m", "n", "o", "p",
     "q", "r", "s", "t", "u", "v", "w", "x", "y", "z"}

SpecialCharacters ==
    {"!", "@", "#", "$", "%", "^", "&", "*", "(", ")", ",", ".", "?", "\"", ":", "{",
     "}", "|", "<", ">"}

\* the decimal digits
Digits == <<"0", "1", "2", "3", "4", "5", "6", "7", "8", "9">>

\* Number(text) for a text of decimal digits; Number('') is 0
RECURSIVE ToNumber(_)
ToNumber(text) ==
    IF text = <<>> THEN 0
    ELSE 10 * ToNumber(SubSeq(text, 1, Len(text) - 1))
         + (CHOOSE d \in 0..9 : Digits[d + 1] = text[Len(text)])

-----------------------------------------------------------------------------
(* Data the remote service and the user can supply *)

\* what the user has typed into the sign-in form when submitting it: a valid
\* form, one whose email lacks the dot part, one whose password is short
LoginForms ==
    { [email |-> <<"a", "@", "b", ".", "c">>, password |-> <<"s", "e", "c", "r", "e", "t">>],
      [email |-> <<"a", "@", "b">>, password |-> <<"s", "e", "c", "r", "e", "t">>],
      [email |-> <<"a", "@", "b", ".", "c">>, password |-> <<"a", "b", "c">>] }

\* the token authAPI.login returns
DummyToken == [jwt |-> "dummy-jwt-token-12345"]

\* tokens a login response can carry
Tokens == {DummyToken}

DummyProfile == [age |-> 28, weight |-> 70, height |-> 175,
                 smoking |-> FALSE, drinking |-> TRUE]

\* the account authAPI.login returns
DummyUser == [id |-> "user-123", email |-> "user@example.com", profile |-> DummyProfile]

\* accounts a login response can carry: the dummy account, and a freshly registered
\* account that has no profile yet
LoginUsers ==
    { DummyUser,
      [id |-> "user-456", email |-> "new@example.com"] }

\* a profile, or a partial profile: any of age, weight, height (absent, 0 or a
\* positive number) and smoking (absent or a boolean)
NumberPart == UNION {[D -> {0, 30}] : D \in SUBSET {"age", "weight", "height"}}
FlagPart == UNION {[D -> BOOLEAN] : D \in SUBSET {"smoking"}}
Profiles == {Spread(n, f) : n \in NumberPart, f \in FlagPart}

\* accounts and partial profiles a caller of the session store can pass
StoreUsers ==
    {[id |-> "user-123", email |-> "user@example.com"]}
    \cup {[id |-> "user-123", email |-> "user@example.com", profile |-> pr] : pr \in Profiles}

\* a password that has exactly the characters of the classes named (one
\* letter, digit or sign each), filled up to 8 characters with signs of no
\* class when it is to be long
PasswordOf(classes, long) ==
    LET part(c, ch) == IF c \in classes THEN <<ch>> ELSE <<>>
        core == part("upper", "Q") \o part("lower", "q") \o part("digit", "7")
                \o part("special", "!")
    IN IF long THEN core \o [i \in 1..(8 - Len(core)) |-> "_"] ELSE core

\* a password for every combination of the five strength criteria (the empty
\* password among them), and a short one of no class
Passwords ==
    {PasswordOf(cl, long) : cl \in SUBSET {"upper", "lower", "digit", "special"},
                            long \in BOOLEAN}
    \cup {<<"_">>}

\* what the user has typed into the registration form when submitting it: a
\* form in order, one with a weak password, one whose confirmation differs
RegisterForms ==
    LET ok == [email |-> <<"a", "@", "b", ".", "c">>,
               password |-> PasswordOf({"upper", "lower", "digit"}, TRUE),
               confirmPassword |-> PasswordOf({"upper", "lower", "digit"}, TRUE)]
    IN { ok,
         [ok EXCEPT !.password = <<"q">>, !.confirmPassword = <<"q">>],
         [ok EXCEPT !.confirmPassword = <<"q">>],
         [ok EXCEPT !.password = PasswordOf({"upper", "lower", "digit", "special"}, TRUE),
                    !.confirmPassword = PasswordOf({"upper", "lower", "digit", "special"}, TRUE)] }

\* what the profile form holds when it is submitted (the texts of its number
\* inputs and its checkboxes): the forms whose values are the least and the
\* greatest that validateForm lets pass, and forms with the age left empty or
\* one value just outside its range.  The handler is given them whether or not
\* the browser's own constraint validation would.
ProfileFormInputs ==
    LET ok == [age |-> <<"1", "3">>, weight |-> <<"2", "0">>, height |-> <<"5", "0">>,
               smoking |-> TRUE, drinking |-> FALSE]
    IN { ok,
         [ok EXCEPT !.age = <<"1", "2", "0">>, !.weight = <<"2", "0", "0">>,
                    !.height = <<"3", "0", "0">>],
         [ok EXCEPT !.age = <<>>],
         [ok EXCEPT !.age = <<"1", "2">>],
         [ok EXCEPT !.age = <<"1", "2", "1">>],
         [ok EXCEPT !.weight = <<"0">>],
         [ok EXCEPT !.weight = <<"1", "9">>],
         [ok EXCEPT !.weight = <<"2", "0", "1">>],
         [ok EXCEPT !.height = <<"4", "9">>],
         [ok EXCEPT !.height = <<"3", "0", "1">>] }

-----------------------------------------------------------------------------
(* Session store: AuthContext.jsx *)

\* the AuthProvider state (useState cells, AuthContext.jsx:30-33)
Store == [isAuthenticated |-> isAuthenticated, user |-> user, token |-> token,
          loading |-> loading]

\* a logout that also restarts the startup check
logoutRestartsCheck(s) ==
    [s EXCEPT !.user = Null, !.token = Null, !.isAuthenticated = FALSE, !.loading = TRUE]

\* a startup check that finds a stored session and restores it
checkExistingSessionRestores(s) ==
    [s EXCEPT !.loading = FALSE, !.isAuthenticated = TRUE, !.user = DummyUser,
              !.token = DummyToken]

\* checkExistingSession: the try block and the catch block both end in setLoading(false)
checkExistingSession(s) ==
    [s EXCEPT !.loading = FALSE]

\* login that stores the token and raises the flag but drops the account
loginWithoutAccount(s, userData, authToken) ==
    [s EXCEPT !.token = authToken, !.isAuthenticated = TRUE]

\* login that stores the account and raises the flag but drops the token
loginWithoutToken(s, userData, authToken) ==
    [s EXCEPT !.user = userData, !.isAuthenticated = TRUE]

\* login(userData, authToken)
login(s, userData, authToken) ==
    [s EXCEPT !.user = userData, !.token = authToken, !.isAuthenticated = TRUE]

\* logout that lowers the flag and clears the token but keeps the account
logoutKeepsAccount(s) ==
    [s EXCEPT !.token = Null, !.isAuthenticated = FALSE]

\* logout that clears the account and the token but leaves the flag raised
logoutKeepsFlag(s) ==
    [s EXCEPT !.user = Null, !.token = Null]

\* logout()
logout(s) ==
    [s EXCEPT !.user = Null, !.token = Null, !.isAuthenticated = FALSE]

\* updateUserProfile: the state updater reads prev.profile, and reading a
\* property of null throws a TypeError
updateThrows(prev) ==
    prev = Null

\* an updater that replaces the profile instead of merging into it
updateReplacesProfile(prev, updatedProfile) ==
    Spread(prev, [profile |-> updatedProfile])

\* updateUserProfile: the updater prev => ({...prev, profile: {...prev.profile, ...updatedProfile}})
updateUserProfile(prev, updatedProfile) ==
    Spread(prev, [profile |-> Spread(ProfileOf(prev), updatedProfile)])

\* a completeness test that asks whether the fields are present, so that 0 counts
profileCompleteByPresence(u) ==
    IF ~Truthy(u) \/ ~Truthy(ProfileOf(u)) THEN FALSE
    ELSE {"age", "weight", "height"} \subseteq DOMAIN ProfileOf(u)

\* ToBoolean(isProfileComplete()) for the account u, which is how every caller reads it
profileComplete(u) ==
    IF ~Truthy(u) \/ ~Truthy(ProfileOf(u)) THEN FALSE
    ELSE /\ TruthyNum(ProfileOf(u), "age")
         /\ TruthyNum(ProfileOf(u), "weight")
         /\ TruthyNum(ProfileOf(u), "height")

isProfileComplete == profileComplete(user)

-----------------------------------------------------------------------------
(* Routing: App (Routes) and ProtectedRoute.jsx *)

\* the assessment types of diseaseConfigs, and one type that is not among them
CatalogTypes == {"diabetes", "heart_disease", "thyroid"}
UnknownType == "cancer"

PredictPaths == {"/predict/diabetes", "/predict/heart_disease", "/predict/thyroid",
                 "/predict/cancer"}

\* useParams().diseaseType of a pathname that matches /predict/:diseaseType
diseaseTypeOf(p) ==
    CASE p = "/predict/diabetes" -> "diabetes"
      [] p = "/predict/heart_disease" -> "heart_disease"
      [] p = "/predict/thyroid" -> "thyroid"
      [] p = "/predict/cancer" -> UnknownType

PublicPaths == {"/", "/login", "/register"}
ProtectedPaths == {"/dashboard", "/profile", "/predictions"} \cup PredictPaths
UnmatchedPath == "/no-such-page"

\* the pathnames a link, a history entry or the address bar can name
Pathnames == PublicPaths \cup ProtectedPaths \cup {UnmatchedPath}

\* the element <Routes> selects for a pathname
RouteElement(p) ==
    CASE p = "/" -> "Home"
      [] p = "/login" -> "Login"
      [] p = "/register" -> "Register"
      [] p = "/dashboard" -> "Dashboard"
      [] p = "/profile" -> "Profile"
      [] p = "/predictions" -> "Predictions"
      [] p \in PredictPaths -> "PredictionForm"
      [] OTHER -> "CatchAll"

\* the routes whose element is wrapped in <ProtectedRoute>
IsProtected(p) ==
    RouteElement(p) \in {"Dashboard", "Profile", "Predictions", "PredictionForm"}

\* ProtectedRoute with its two tests in the other order
ProtectedRouteAuthFirst(s, p) ==
    IF ~s.isAuthenticated
    THEN [kind |-> "Redirect", to |-> "/login", from |-> p]
    ELSE IF s.loading THEN [kind |-> "Pending"]
         ELSE [kind |-> "Render"]

\* ProtectedRoute: what it returns at location p for the session s
ProtectedRoute(s, p) ==
    IF s.loading THEN [kind |-> "Pending"]
    ELSE IF ~s.isAuthenticated
         THEN [kind |-> "Redirect", to |-> "/login", from |-> p]
         ELSE [kind |-> "Render"]

\* the location the router settles on when p (with location.state st) is requested:
\* <Navigate> replaces the location, the catch-all goes to "/"
Resolve(s, p, st) ==
    IF RouteElement(p) = "CatchAll" THEN [pathname |-> "/", state |-> Null]
    ELSE IF IsProtected(p) /\ ProtectedRoute(s, p).kind = "Redirect"
         THEN [pathname |-> ProtectedRoute(s, p).to,
               state |-> [from |-> ProtectedRoute(s, p).from]]
         ELSE [pathname |-> p, state |-> st]

\* the page on screen at location p for the session s
Screen(s, p) ==
    IF IsProtected(p) /\ ProtectedRoute(s, p).kind = "Pending" THEN "Spinner"
    ELSE IF IsProtected(p) /\ ProtectedRoute(s, p).kind = "Redirect" THEN "None"
    ELSE RouteElement(p)

\* Login.validateForm: the keys of newErrors
LoginErrors(formData) ==
    {k \in {"email"} : formData.email = <<>> \/ ~EmailPattern(formData.email)}
    \cup {k \in {"password"} : formData.password = <<>> \/ Len(formData.password) < 6}

\* a validateForm that finds every form in order
LoginValidateFormPassesAll(formData) ==
    TRUE

\* Login.validateForm: Object.keys(newErrors).length === 0
LoginValidateForm(formData) ==
    LoginErrors(formData) = {}

\* Profile.validateForm: the keys of newErrors
ProfileErrors(formData) ==
    {k \in {"age"} : \/ formData.age = <<>>
                     \/ ToNumber(formData.age) < 13 \/ ToNumber(formData.age) > 120}
    \cup {k \in {"weight"} : \/ formData.weight = <<>>
                            \/ ToNumber(formData.weight) < 20 \/ ToNumber(formData.weight) > 200}
    \cup {k \in {"height"} : \/ formData.height = <<>>
                            \/ ToNumber(formData.height) < 50 \/ ToNumber(formData.height) > 300}

\* a validateForm that finds every form in order
ProfileValidateFormPassesAll(formData) ==
    TRUE

\* Profile.validateForm: Object.keys(newErrors).length === 0
ProfileValidateForm(formData) ==
    ProfileErrors(formData) = {}

\* Profile.handleSubmit: profileData, the form with its numeric fields converted
profileDataOf(formData) ==
    [formData EXCEPT !.age = ToNumber(formData.age),
                     !.weight = ToNumber(formData.weight),
                     !.height = ToNumber(formData.height)]

\* profileData the profile form submits once validateForm has passed
ProfileForms ==
    {profileDataOf(fd) : fd \in {f \in ProfileFormInputs : ProfileValidateForm(f)}}

\* array[index] of a JavaScript array: the element, or undefined beyond its end
Undefined == [undefined |-> TRUE]
ElementAt(array, index) ==
    IF index + 1 \in DOMAIN array THEN [value |-> array[index + 1]] ELSE Undefined

\* the regular expression test of one character class on a text
Has(text, class) == \E i \in DOMAIN text : text[i] \in class

\* checkPasswordStrength: the score, one point per criterion met
passwordScore(password) ==
    (IF Len(password) >= 8 THEN 1 ELSE 0)
    + (IF Has(password, UpperCase) THEN 1 ELSE 0)
    + (IF Has(password, LowerCase) THEN 1 ELSE 0)
    + (IF Has(password, {Digits[i] : i \in DOMAIN Digits}) THEN 1 ELSE 0)
    + (IF Has(password, SpecialCharacters) THEN 1 ELSE 0)

\* the strength labels and colours, arrays of five elements
StrengthLabels == <<"Very Weak", "Weak", "Fair", "Good", "Strong">>
StrengthColors == <<"text-red-600", "text-red-500", "text-yellow-500", "text-blue-500",
                    "text-green-500">>

\* checkPasswordStrength (the feedback list is left out)
checkPasswordStrength(password) ==
    [score |-> passwordScore(password),
     strength |-> ElementAt(StrengthLabels, passwordScore(password)),
     color |-> ElementAt(StrengthColors, passwordScore(password))]

\* the render of the Register page throws: the strength indicator, shown for a
\* non-empty password, calls passwordStrength.color.replace for each of the
\* first `score` bars
RegisterRenderThrows(formData) ==
    /\ formData.password # <<>>
    /\ checkPasswordStrength(formData.password).score > 0
    /\ checkPasswordStrength(formData.password).color = Undefined

\* Register.validateForm: the keys of newErrors
RegisterErrors(formData) ==
    {k \in {"email"} : formData.email = <<>> \/ ~EmailPattern(formData.email)}
    \cup {k \in {"password"} : \/ formData.password = <<>>
                              \/ checkPasswordStrength(formData.password).score < 3}
    \cup {k \in {"confirmPassword"} : \/ formData.confirmPassword = <<>>
                                     \/ formData.password # formData.confirmPassword}

\* a validateForm that finds every form in order
RegisterValidateFormPassesAll(formData) ==
    TRUE

\* Register.validateForm: Object.keys(newErrors).length === 0
RegisterValidateForm(formData) ==
    RegisterErrors(formData) = {}

\* a sign-in page that always returns to the landing page
fromAlwaysDashboard(st) ==
    "/dashboard"

\* Login.jsx:26, const from = location.state?.from || '/dashboard'
fromOf(st) ==
    IF st # Null /\ "from" \in DOMAIN st THEN st["from"] ELSE "/dashboard"

-----------------------------------------------------------------------------
(* Assessment screen: PredictionForm.jsx *)

\* diseaseConfigs[type].questions, as the sequence of the question keys
diseaseConfigs ==
    [diabetes |-> <<"frequent_urination", "excessive_thirst", "unexplained_weight_loss",
                    "fatigue", "blurred_vision", "slow_healing">>,
     heart_disease |-> <<"chest_pain", "shortness_breath", "high_blood_pressure",
                         "cholesterol_levels", "exercise_tolerance", "family_history">>,
     thyroid |-> <<"weight_changes", "energy_levels", "temperature_sensitivity",
                   "hair_skin_changes", "mood_changes", "sleep_patterns">>]

\* the question keys of a catalog type
QuestionKeys(t) == {diseaseConfigs[t][i] : i \in DOMAIN diseaseConfigs[t]}

\* the question keys whose sliders the user moves
MovedKeys(t) == {diseaseConfigs[t][i] : i \in DOMAIN diseaseConfigs[t] \cap 1..MaxMoved}

\* positions the user asks of a slider with the pointer, the keyboard or a script
\* that sets the value of the input; 150 lies beyond max
SliderInputs == {0, 100, 150}

\* a range input that hands on whatever it is asked
RangeValueUnchecked(raw, min, max) ==
    raw

\* <input type="range" min max step={1}>: the value of the input is the asked
\* position brought into min..max
RangeValue(raw, min, max) ==
    IF raw < min THEN min ELSE IF raw > max THEN max ELSE raw

\* values the range input of a Slider (min 0, max 100, step 1) hands to onChange
SliderValues == {RangeValue(raw, 0, 100) : raw \in SliderInputs}

\* the sum of the values of the object f
RECURSIVE SumOver(_, _)
SumOver(f, keys) ==
    IF keys = {} THEN 0
    ELSE LET k == CHOOSE x \in keys : TRUE
         IN f[k] + SumOver(f, keys \ {k})

\* Math.round(num / den) for den > 0
Round(num, den) == (2 * num + den) \div (2 * den)

\* results of the four Math.random() calls of one getPrediction call, in
\* hundredths, in the order of the calls
RandomDraws == { <<0, 20, 90, 40>>, <<99, 90, 10, 99>> }

\* the list with x put behind the last element whose impact is not smaller
RECURSIVE InsertByImpact(_, _)
InsertByImpact(sorted, x) ==
    IF sorted = <<>> THEN <<x>>
    ELSE IF Head(sorted).impact >= x.impact
         THEN <<Head(sorted)>> \o InsertByImpact(Tail(sorted), x)
         ELSE <<x>> \o sorted

\* the elements of factors inserted one by one, in their order
RECURSIVE InsertAll(_)
InsertAll(factors) ==
    IF factors = <<>> THEN <<>>
    ELSE InsertByImpact(InsertAll(SubSeq(factors, 1, Len(factors) - 1)),
                        factors[Len(factors)])

\* a facade that returns the risk factors in the order it computed them
LeaveUnsorted(factors) ==
    factors

\* factors.sort((a, b) => b.impact - a.impact), a stable sort
SortByImpact(factors) ==
    InsertAll(factors)

\* predictionsAPI.getPrediction: response.data.data for the random draws r (the
\* timestamp is left out)
getPrediction(disease, sym, r) ==
    LET total == SumOver(sym, DOMAIN sym)
        len == Cardinality(DOMAIN sym)
        \* avgSymptomScore + Math.random() * 20 - 10, over the denominator 5 * len
        num == 5 * total + len * r[1] - 50 * len
        clamped == IF num < 25 * len THEN 25 * len
                   ELSE IF num > 475 * len THEN 475 * len ELSE num
    IN [disease |-> disease,
        prediction_percentage |-> Round(clamped, 5 * len),
        risk_factors |-> SortByImpact(
            << [name |-> "High BMI", impact |-> Round(r[2] * 50, 100)],
               [name |-> "Age Factor", impact |-> Round(r[3] * 30, 100)],
               [name |-> "Lifestyle", impact |-> Round(r[4] * 25, 100)] >>)]

\* response.data.data of a successful scoring call for (disease, sym); Null is a
\* success envelope without data
PredictionData(disease, sym) ==
    {getPrediction(disease, sym, r) : r \in RandomDraws} \cup {Null}

\* the PredictionForm state (useState cells, PredictionForm.jsx:30-33)
Form == [currentStep |-> currentStep, symptoms |-> symptoms,
         prediction |-> prediction, formLoading |-> formLoading]

\* the useState initial values of a PredictionForm instance
InitialForm == [currentStep |-> "form", symptoms |-> <<>>,
                prediction |-> Null, formLoading |-> FALSE]

\* a PredictionForm instance is mounted at location p for the session s
FormMounted(s, p) == Screen(s, p) = "PredictionForm"

\* the effect with the profile test before the catalog test
initOutcomeProfileFirst(t, complete) ==
    IF ~complete THEN "ProfileIncomplete"
    ELSE IF t \notin DOMAIN diseaseConfigs THEN "UnknownAssessmentType"
    ELSE "Seeded"

\* the useEffect on [diseaseType]: which of its three branches runs
initOutcome(t, complete) ==
    IF t \notin DOMAIN diseaseConfigs THEN "UnknownAssessmentType"
    ELSE IF ~complete THEN "ProfileIncomplete"
    ELSE "Seeded"

\* the useEffect on [diseaseType]: initialSymptoms
initialSymptoms(t) == [k \in QuestionKeys(t) |-> 0]

\* the useEffect on [diseaseType]: the PredictionForm state it leaves
initializeForm(f, t) ==
    [f EXCEPT !.symptoms = initialSymptoms(t)]

\* handleSymptomChange: prev => ({...prev, [key]: value})
handleSymptomChange(prev, key, value) ==
    Spread(prev, [k \in {key} |-> value])

\* a form check that lets every answer map through
validateFormAcceptsAll(sym) ==
    TRUE

\* validateForm: Object.values(symptoms).reduce(sum) is not 0
validateForm(sym) == SumOver(sym, DOMAIN sym) # 0

\* handleSubmit, success branch and finally: the PredictionForm state it leaves
handleSubmitSuccess(f, data) ==
    [f EXCEPT !.prediction = data, !.currentStep = "results", !.formLoading = FALSE]

\* a catch branch that also empties the answers
handleSubmitCatchClearsAnswers(f) ==
    [f EXCEPT !.currentStep = "form", !.formLoading = FALSE, !.symptoms = <<>>]

\* handleSubmit, catch branch and finally: the PredictionForm state it leaves
handleSubmitCatch(f) ==
    [f EXCEPT !.currentStep = "form", !.formLoading = FALSE]

\* handleSubmit, neither branch (success is false) and finally
handleSubmitFinally(f) ==
    [f EXCEPT !.formLoading = FALSE]

\* getRiskLevel of the results step
getRiskLevel(percentage) ==
    IF percentage < 25
    THEN [level |-> "Low", color |-> "text-green-600", bgColor |-> "bg-green-100"]
    ELSE IF percentage < 50
    THEN [level |-> "Moderate", color |-> "text-yellow-600", bgColor |-> "bg-yellow-100"]
    ELSE IF percentage < 75
    THEN [level |-> "High", color |-> "text-orange-600", bgColor |-> "bg-orange-100"]
    ELSE [level |-> "Very High", color |-> "text-red-600", bgColor |-> "bg-red-100"]

\* a history display whose bands end at 25, 50 and 75 inclusive
getRiskColorInclusive(percentage) ==
    IF percentage <= 25 THEN <<"text-green-600", "bg-green-100">>
    ELSE IF percentage <= 50 THEN <<"text-yellow-600", "bg-yellow-100">>
    ELSE IF percentage <= 75 THEN <<"text-orange-600", "bg-orange-100">>
    ELSE <<"text-red-600", "bg-red-100">>

\* getRiskColor of the prediction history (Profile): the class names of the
\* returned string, in their order
getRiskColor(percentage) ==
    IF percentage < 25 THEN <<"text-green-600", "bg-green-100">>
    ELSE IF percentage < 50 THEN <<"text-yellow-600", "bg-yellow-100">>
    ELSE IF percentage < 75 THEN <<"text-orange-600", "bg-orange-100">>
    ELSE <<"text-red-600", "bg-red-100">>

\* handleBack: the PredictionForm state it leaves when currentStep is 'results'
handleBackForm(f) ==
    [f EXCEPT !.currentStep = "form", !.prediction = Null]

-----------------------------------------------------------------------------
(* Steps *)

Toast(type, message) == [type |-> type, message |-> message]

Op(name, arg, out) == [op |-> name, arg |-> arg, out |-> out]

\* Predictions.diseaseCards: the id of each card
DiseaseCardIds == {"diabetes", "heart_disease", "thyroid"}

\* the pathname `/predict/${diseaseId}`
predictPath(diseaseId) ==
    CHOOSE p \in PredictPaths : diseaseTypeOf(p) = diseaseId

\* a card click that goes to the form whatever the profile
handlePredictionClickUngated(u, diseaseId) ==
    [toasts |-> <<>>, to |-> predictPath(diseaseId)]

\* Predictions.handlePredictionClick: the toast it shows and where it navigates,
\* for the account u of the session
handlePredictionClick(u, diseaseId) ==
    IF ~profileComplete(u)
    THEN [toasts |-> <<Toast("error", "Please complete your profile before making predictions.")>>,
          to |-> "/profile"]
    ELSE [toasts |-> <<>>, to |-> predictPath(diseaseId)]

\* Predictions: the disabled prop of the "Start Assessment" button of every card
StartAssessmentDisabled(u) == ~profileComplete(u)

\* Dashboard.quickActions: the disabled field of the "New Prediction" action
NewPredictionDisabled(u) == ~profileComplete(u)

\* every request whose PredictionForm instance is gone: its response reaches no
\* state of the screen any more, so what it asked is forgotten
Orphaned(reqs) ==
    [i \in DOMAIN reqs |->
        [orphan |-> TRUE, replaced |-> FALSE, disease |-> "", symptoms |-> <<>>]]

\* every request whose PredictionForm instance now shows another diseaseType
Replaced(reqs) == [i \in DOMAIN reqs |-> [reqs[i] EXCEPT !.replaced = TRUE]]

\* Commit the handler's writes (session s2, PredictionForm state f2, requests
\* reqs2), go to the requested location and render: ProtectedRoute decides, a
\* PredictionForm that is no longer on screen is unmounted and loses its state, one
\* that comes on screen starts from its initial state, and the effect on
\* [diseaseType] is due after a mount or a change of diseaseType.
Commit(s2, p2, st2, f2, reqs2, due) ==
    LET loc == Resolve(s2, p2, st2)
        was == FormMounted(Store, pathname)
        now == FormMounted(s2, loc.pathname)
        typeChanged == was /\ now /\ diseaseTypeOf(pathname) # diseaseTypeOf(loc.pathname)
        f3 == IF was /\ now THEN f2 ELSE InitialForm
    IN /\ isAuthenticated' = s2.isAuthenticated
       /\ user' = s2.user
       /\ token' = s2.token
       /\ loading' = s2.loading
       /\ pathname' = loc.pathname
       /\ locState' = loc.state
       /\ currentStep' = f3.currentStep
       /\ symptoms' = f3.symptoms
       /\ prediction' = f3.prediction
       /\ formLoading' = f3.formLoading
       /\ initPending' = (now /\ (~was \/ typeChanged \/ due))
       /\ predReqs' = IF was /\ ~now THEN Orphaned(reqs2)
                      ELSE IF typeChanged THEN Replaced(reqs2)
                      ELSE reqs2

\* the remote calls awaiting their response
InFlight == Len(loginReqs) + Len(registerReqs) + Len(profileReqs) + Len(predReqs)

\* an event handler can run: the application is mounted and no effect is due
Ready == ~crashed /\ ~loading /\ ~initPending

Init ==
    /\ isAuthenticated = FALSE
    /\ user = Null
    /\ token = Null
    /\ loading = TRUE
    /\ pathname \in Pathnames \ {UnmatchedPath}
    /\ locState = Null
    /\ currentStep = InitialForm.currentStep
    /\ symptoms = InitialForm.symptoms
    /\ prediction = InitialForm.prediction
    /\ formLoading = InitialForm.formLoading
    /\ initPending = FALSE
    /\ loginReqs = <<>>
    /\ registerReqs = <<>>
    /\ profileReqs = <<>>
    /\ predReqs = <<>>
    /\ toasts = <<>>
    /\ crashed = FALSE
    /\ lastOp = Op("mount", "", "")

\* AuthProvider useEffect(checkExistingSession, [])
CheckExistingSession ==
    /\ ~crashed /\ loading
    /\ Commit(checkExistingSession(Store), pathname, locState, Form, predReqs, FALSE)
    /\ toasts' = <<>>
    /\ lastOp' = Op("checkExistingSession", "", "")
    /\ UNCHANGED <<loginReqs, registerReqs, profileReqs, crashed>>

\* a <Link>, a navigate() button or a history traversal takes the user to p
NavigateTo(p) ==
    /\ Ready
    /\ Commit(Store, p, Null, Form, predReqs, FALSE)
    /\ toasts' = <<>>
    /\ lastOp' = Op("navigate", "", "")
    /\ UNCHANGED <<loginReqs, registerReqs, profileReqs, crashed>>

\* the user clicks the card diseaseId of the Predictions page
HandlePredictionClick(diseaseId) ==
    /\ Ready
    /\ Screen(Store, pathname) = "Predictions"
    /\ LET r == handlePredictionClick(user, diseaseId)
       IN /\ Commit(Store, r.to, Null, Form, predReqs, FALSE)
          /\ toasts' = r.toasts
          /\ lastOp' = Op("handlePredictionClick", diseaseId, r.to)
    /\ UNCHANGED <<loginReqs, registerReqs, profileReqs, crashed>>

\* the user clicks the "New Prediction" quick action of the Dashboard: a <Link>
\* to /predictions whose onClick prevents the navigation when the action is disabled
NewPredictionClick ==
    /\ Ready
    /\ Screen(Store, pathname) = "Dashboard"
    /\ toasts' = <<>>
    /\ IF NewPredictionDisabled(user)
       THEN /\ lastOp' = Op("Dashboard.newPrediction", "", "prevented")
            /\ UNCHANGED <<authVars, pathname, locState, formVars, predReqs>>
       ELSE /\ lastOp' = Op("Dashboard.newPrediction", "", "/predictions")
            /\ Commit(Store, "/predictions", Null, Form, predReqs, FALSE)
    /\ UNCHANGED <<loginReqs, registerReqs, profileReqs, crashed>>

\* Login.handleSubmit up to `await authAPI.login(formData)`
LoginSubmit(formData) ==
    /\ Ready
    /\ Screen(Store, pathname) = "Login"
    /\ IF ~LoginValidateForm(formData)
       THEN /\ toasts' = <<Toast("error", "Please fix the errors below")>>
            /\ lastOp' = Op("Login.handleSubmit", formData, "invalid")
            /\ UNCHANGED loginReqs
       ELSE /\ InFlight < MaxInFlight
            /\ loginReqs' = Append(loginReqs, [from |-> fromOf(locState)])
            /\ toasts' = <<>>
            /\ lastOp' = Op("Login.handleSubmit", formData, "request")
    /\ UNCHANGED <<authVars, pathname, locState, formVars, registerReqs, profileReqs,
                   predReqs, crashed>>

\* Login.handleSubmit from the response of authAPI.login on
LoginResponse(i, outcome) ==
    /\ Ready
    /\ i \in DOMAIN loginReqs
    /\ loginReqs' = SubSeq(loginReqs, 1, i - 1) \o SubSeq(loginReqs, i + 1, Len(loginReqs))
    /\ lastOp' = Op("Login.response", loginReqs[i].from, outcome)
    /\ UNCHANGED <<registerReqs, profileReqs, crashed>>
    /\ CASE outcome = "ok" ->
              \E u \in LoginUsers, t \in Tokens :
                  /\ Commit(login(Store, u, t), loginReqs[i].from, Null, Form, predReqs, FALSE)
                  /\ toasts' = <<Toast("success", "Login successful! Welcome back.")>>
         [] outcome = "throw" ->
              /\ toasts' = <<Toast("error", "Invalid credentials.")>>
              /\ UNCHANGED <<authVars, pathname, locState, formVars, predReqs>>
         [] outcome = "unsuccessful" ->
              /\ toasts' = <<>>
              /\ UNCHANGED <<authVars, pathname, locState, formVars, predReqs>>

\* The user types formData into the registration form and submits it.  Every
\* change renders the page, and a render that throws unmounts the application
\* (there is no error boundary); otherwise Register.handleSubmit up to
\* `await authAPI.register(...)`.
RegisterSubmit(formData) ==
    /\ Ready
    /\ Screen(Store, pathname) = "Register"
    /\ CASE RegisterRenderThrows(formData) ->
              /\ crashed' = TRUE
              /\ toasts' = <<>>
              /\ lastOp' = Op("Register.handleChange", formData, "TypeError")
              /\ predReqs' = Orphaned(predReqs)
              /\ UNCHANGED <<authVars, pathname, locState, formVars, registerReqs>>
         [] ~RegisterRenderThrows(formData) /\ ~RegisterValidateForm(formData) ->
              /\ toasts' = <<Toast("error", "Please fix the errors below")>>
              /\ lastOp' = Op("Register.handleSubmit", formData, "invalid")
              /\ UNCHANGED <<authVars, pathname, locState, formVars, registerReqs, predReqs,
                             crashed>>
         [] ~RegisterRenderThrows(formData) /\ RegisterValidateForm(formData) ->
              /\ InFlight < MaxInFlight
              /\ registerReqs' = Append(registerReqs, [email |-> formData.email])
              /\ toasts' = <<>>
              /\ lastOp' = Op("Register.handleSubmit", formData, "request")
              /\ UNCHANGED <<authVars, pathname, locState, formVars, predReqs, crashed>>
    /\ UNCHANGED <<loginReqs, profileReqs>>

\* Register.handleSubmit from the response of authAPI.register on
RegisterResponse(i, outcome) ==
    /\ Ready
    /\ i \in DOMAIN registerReqs
    /\ registerReqs' = SubSeq(registerReqs, 1, i - 1)
                         \o SubSeq(registerReqs, i + 1, Len(registerReqs))
    /\ lastOp' = Op("Register.response", "", outcome)
    /\ UNCHANGED <<loginReqs, profileReqs, crashed>>
    /\ CASE outcome = "ok" ->
              /\ Commit(Store, "/login", Null, Form, predReqs, FALSE)
              /\ toasts' = <<Toast("success", "Registration successful! Please log in.")>>
         [] outcome = "throw" ->
              /\ toasts' = <<Toast("error", "Registration failed. Please try again.")>>
              /\ UNCHANGED <<authVars, pathname, locState, formVars, predReqs>>
         [] outcome = "unsuccessful" ->
              /\ toasts' = <<>>
              /\ UNCHANGED <<authVars, pathname, locState, formVars, predReqs>>

\* Navbar.handleLogout: logout(); navigate('/')
Logout ==
    /\ Ready
    /\ isAuthenticated
    /\ Screen(Store, pathname) \notin {"Spinner", "None"}
    /\ Commit(logout(Store), "/", Null, Form, predReqs, FALSE)
    /\ toasts' = <<>>
    /\ lastOp' = Op("Navbar.handleLogout", "", "")
    /\ UNCHANGED <<loginReqs, registerReqs, profileReqs, crashed>>

\* Profile.handleSubmit up to `await profileAPI.updateProfile(profileData, token)`
ProfileSubmit(formData) ==
    /\ Ready
    /\ Screen(Store, pathname) = "Profile"
    /\ IF ~ProfileValidateForm(formData)
       THEN /\ toasts' = <<Toast("error", "Please fix the errors below")>>
            /\ lastOp' = Op("Profile.handleSubmit", formData, "invalid")
            /\ UNCHANGED profileReqs
       ELSE /\ InFlight < MaxInFlight
            /\ profileReqs' = Append(profileReqs, [profileData |-> profileDataOf(formData)])
            /\ toasts' = <<>>
            /\ lastOp' = Op("Profile.handleSubmit", formData, "request")
    /\ UNCHANGED <<authVars, pathname, locState, formVars, loginReqs, registerReqs, predReqs, crashed>>

\* Profile.handleSubmit from the response of profileAPI.updateProfile on.  The
\* TypeError of updateUserProfile is thrown when React runs the updater: the
\* call returns, the success toast is raised, and the render that follows
\* throws with no error boundary above it, which unmounts the application.
ProfileResponse(i, outcome) ==
    /\ Ready
    /\ i \in DOMAIN profileReqs
    /\ profileReqs' = SubSeq(profileReqs, 1, i - 1) \o SubSeq(profileReqs, i + 1, Len(profileReqs))
    /\ UNCHANGED <<loginReqs, registerReqs>>
    /\ CASE outcome = "ok" /\ ~updateThrows(user) ->
              /\ Commit([Store EXCEPT !.user = updateUserProfile(user, profileReqs[i].profileData)],
                        pathname, locState, Form, predReqs, FALSE)
              /\ toasts' = <<Toast("success", "Profile updated successfully!")>>
              /\ lastOp' = Op("Profile.response", "", "ok")
              /\ UNCHANGED crashed
         [] outcome = "ok" /\ updateThrows(user) ->
              /\ crashed' = TRUE
              /\ toasts' = <<Toast("success", "Profile updated successfully!")>>
              /\ lastOp' = Op("Profile.response", "", "TypeError")
              /\ predReqs' = Orphaned(predReqs)
              /\ UNCHANGED <<authVars, pathname, locState, formVars>>
         [] outcome \in {"throw", "unauthorized"} ->
              /\ toasts' = <<Toast("error", "Failed to update profile. Please try again.")>>
              /\ lastOp' = Op("Profile.response", "", outcome)
              /\ UNCHANGED <<authVars, pathname, locState, formVars, predReqs, crashed>>
         [] outcome = "unsuccessful" ->
              /\ toasts' = <<>>
              /\ lastOp' = Op("Profile.response", "", "unsuccessful")
              /\ UNCHANGED <<authVars, pathname, locState, formVars, predReqs, crashed>>

\* PredictionForm useEffect(..., [diseaseType])
InitializeEffect ==
    /\ ~crashed /\ initPending
    /\ LET t == diseaseTypeOf(pathname)
           out == initOutcome(t, isProfileComplete)
       IN /\ lastOp' = Op("PredictionForm.initialize", t, out)
          /\ CASE out = "UnknownAssessmentType" ->
                    /\ toasts' = <<Toast("error", "Invalid disease type")>>
                    /\ Commit(Store, "/predictions", Null, Form, predReqs, FALSE)
               [] out = "ProfileIncomplete" ->
                    /\ toasts' = <<Toast("error", "Please complete your profile first")>>
                    /\ Commit(Store, "/profile", Null, Form, predReqs, FALSE)
               [] out = "Seeded" ->
                    /\ toasts' = <<>>
                    /\ Commit(Store, pathname, locState, initializeForm(Form, t), predReqs, FALSE)
    /\ UNCHANGED <<loginReqs, registerReqs, profileReqs, crashed>>

\* a screen that keeps the form, with its submit button, in every step
EveryStepShowsForm ==
    /\ Screen(Store, pathname) = "PredictionForm"
    /\ diseaseTypeOf(pathname) \in DOMAIN diseaseConfigs

\* the form step of PredictionForm is on screen (currentDisease exists)
FormStepShown ==
    /\ Screen(Store, pathname) = "PredictionForm"
    /\ diseaseTypeOf(pathname) \in DOMAIN diseaseConfigs
    /\ currentStep = "form"

\* the user asks the position raw of the slider of question key: Slider onChange
\* -> handleSymptomChange(question.key, Number(e.target.value))
HandleSymptomChange(key, raw) ==
    /\ Ready
    /\ FormStepShown
    /\ key \in MovedKeys(diseaseTypeOf(pathname))
    /\ Commit(Store, pathname, locState,
              [Form EXCEPT !.symptoms =
                  handleSymptomChange(symptoms, key, RangeValue(raw, 0, 100))],
              predReqs, FALSE)
    /\ toasts' = <<>>
    /\ lastOp' = Op("handleSymptomChange", raw, "")
    /\ UNCHANGED <<loginReqs, registerReqs, profileReqs, crashed>>

\* PredictionForm.handleSubmit up to `await predictionsAPI.getPrediction(...)`
HandleSubmit ==
    /\ Ready
    /\ FormStepShown
    /\ ~formLoading
    /\ IF ~validateForm(symptoms)
       THEN /\ toasts' = <<Toast("error", "Please provide at least some symptom information")>>
            /\ lastOp' = Op("PredictionForm.handleSubmit", "", "invalid")
            /\ UNCHANGED <<authVars, pathname, locState, formVars, predReqs>>
       ELSE /\ InFlight < MaxInFlight
            /\ toasts' = <<>>
            /\ lastOp' = Op("PredictionForm.handleSubmit", "", "request")
            /\ Commit(Store, pathname, locState,
                      [Form EXCEPT !.formLoading = TRUE, !.currentStep = "loading"],
                      Append(predReqs, [orphan |-> FALSE, replaced |-> FALSE,
                                        disease |-> diseaseTypeOf(pathname),
                                        symptoms |-> symptoms]),
                      FALSE)
    /\ UNCHANGED <<loginReqs, registerReqs, profileReqs, crashed>>

\* PredictionForm.handleSubmit from the response of getPrediction on.  The state
\* setters of an unmounted instance do nothing; the toasts are global.  A thrown
\* error takes the catch branch whatever its status.
PredictionResponse(i, outcome) ==
    /\ Ready
    /\ i \in DOMAIN predReqs
    /\ LET req == predReqs[i]
           rest == SubSeq(predReqs, 1, i - 1) \o SubSeq(predReqs, i + 1, Len(predReqs))
       IN CASE outcome = "ok" /\ ~req.orphan ->
                 \E data \in PredictionData(req.disease, req.symptoms) :
                     /\ toasts' = <<Toast("success", "Prediction completed successfully!")>>
                     /\ lastOp' = Op("PredictionForm.response", [req |-> req, data |-> data], outcome)
                     /\ Commit(Store, pathname, locState,
                               handleSubmitSuccess(Form, data), rest, FALSE)
            [] outcome = "ok" /\ req.orphan ->
                 /\ toasts' = <<Toast("success", "Prediction completed successfully!")>>
                 /\ lastOp' = Op("PredictionForm.response", [req |-> req, data |-> Null], outcome)
                 /\ Commit(Store, pathname, locState, Form, rest, FALSE)
            [] outcome \in {"throw", "unauthorized"} ->
                 /\ toasts' = <<Toast("error", "Failed to generate prediction. Please try again.")>>
                 /\ lastOp' = Op("PredictionForm.response", [req |-> req, data |-> Null], outcome)
                 /\ Commit(Store, pathname, locState,
                           IF ~req.orphan THEN handleSubmitCatch(Form) ELSE Form,
                           rest, FALSE)
            [] outcome = "unsuccessful" ->
                 /\ toasts' = <<>>
                 /\ lastOp' = Op("PredictionForm.response", [req |-> req, data |-> Null], outcome)
                 /\ Commit(Store, pathname, locState,
                           IF ~req.orphan THEN handleSubmitFinally(Form) ELSE Form,
                           rest, FALSE)
    /\ UNCHANGED <<loginReqs, registerReqs, profileReqs, crashed>>

\* PredictionForm.handleBack (the Back button of the main render)
HandleBack ==
    /\ Ready
    /\ Screen(Store, pathname) = "PredictionForm"
    /\ diseaseTypeOf(pathname) \in DOMAIN diseaseConfigs
    /\ IF currentStep = "results"
       THEN Commit(Store, pathname, locState, handleBackForm(Form), predReqs, FALSE)
       ELSE Commit(Store, "/predictions", Null, Form, predReqs, FALSE)
    /\ toasts' = <<>>
    /\ lastOp' = Op("handleBack", "", currentStep)
    /\ UNCHANGED <<loginReqs, registerReqs, profileReqs, crashed>>

Outcomes == {"ok", "throw", "unsuccessful"}

\* the outcomes of a call that sends the token: a thrown error may be the
\* service's rejection of the token (status 401)
TokenOutcomes == Outcomes \cup {"unauthorized"}

Next ==
    \/ CheckExistingSession
    \/ \E p \in Pathnames : NavigateTo(p)
    \/ \E d \in DiseaseCardIds : HandlePredictionClick(d)
    \/ NewPredictionClick
    \/ \E fd \in LoginForms : LoginSubmit(fd)
    \/ \E i \in 1..MaxInFlight, o \in Outcomes : LoginResponse(i, o)
    \/ \E fd \in RegisterForms : RegisterSubmit(fd)
    \/ \E i \in 1..MaxInFlight, o \in Outcomes : RegisterResponse(i, o)
    \/ Logout
    \/ \E fd \in ProfileFormInputs : ProfileSubmit(fd)
    \/ \E i \in 1..MaxInFlight, o \in TokenOutcomes : ProfileResponse(i, o)
    \/ InitializeEffect
    \/ \E t \in CatalogTypes : \E k \in MovedKeys(t), raw \in SliderInputs :
           HandleSymptomChange(k, raw)
    \/ HandleSubmit
    \/ \E i \in 1..MaxInFlight, o \in TokenOutcomes : PredictionResponse(i, o)
    \/ HandleBack

Spec == Init /\ [][Next]_vars

-----------------------------------------------------------------------------
(* The application with a login page that is left and come back to while its *)
(* login is unanswered                                                       *)

\* Login.handleSubmit of a fresh Login instance: the page was left and reached
\* again through the history, which keeps location.state, so its loading flag is
\* false and its button enabled although the login of the earlier instance is
\* still unanswered; the new request is sent beside it
LoginResubmit(formData) ==
    /\ Ready
    /\ Screen(Store, pathname) = "Login"
    /\ LoginValidateForm(formData)
    /\ loginReqs # <<>>
    /\ InFlight <= MaxInFlight
    /\ loginReqs' = Append(loginReqs, [from |-> fromOf(locState)])
    /\ toasts' = <<>>
    /\ lastOp' = Op("Login.handleSubmit", formData, "request")
    /\ UNCHANGED <<authVars, pathname, locState, formVars, registerReqs, profileReqs,
                   predReqs, crashed>>

ResubmitNext ==
    \/ Next
    \/ \E fd \in LoginForms : LoginResubmit(fd)

ResubmitSpec == Init /\ [][ResubmitNext]_vars

-----------------------------------------------------------------------------
(* The session store alone, driven through the functions its context exports *)
(* (login, logout, updateUserProfile) with any arguments                     *)

\* a consumer calls login(userData, authToken)
StoreLogin(userData, authToken) ==
    /\ Ready
    /\ Commit(login(Store, userData, authToken), pathname, locState, Form, predReqs, FALSE)
    /\ toasts' = <<>>
    /\ lastOp' = Op("login", "", "")
    /\ UNCHANGED <<loginReqs, registerReqs, profileReqs, crashed>>

\* a consumer calls logout()
StoreLogout ==
    /\ Ready
    /\ Commit(logout(Store), pathname, locState, Form, predReqs, FALSE)
    /\ toasts' = <<>>
    /\ lastOp' = Op("logout", "", "")
    /\ UNCHANGED <<loginReqs, registerReqs, profileReqs, crashed>>

\* a consumer calls updateUserProfile(updatedProfile)
StoreUpdateUserProfile(updatedProfile) ==
    /\ Ready
    /\ toasts' = <<>>
    /\ UNCHANGED <<loginReqs, registerReqs, profileReqs>>
    /\ IF updateThrows(user)
       THEN /\ crashed' = TRUE
            /\ lastOp' = Op("updateUserProfile", updatedProfile, "TypeError")
            /\ UNCHANGED <<authVars, pathname, locState, formVars, predReqs>>
       ELSE /\ Commit([Store EXCEPT !.user = updateUserProfile(user, updatedProfile)],
                      pathname, locState, Form, predReqs, FALSE)
            /\ lastOp' = Op("updateUserProfile", updatedProfile, "ok")
            /\ UNCHANGED crashed

StoreNext ==
    \/ CheckExistingSession
    \/ \E u \in StoreUsers, t \in Tokens : StoreLogin(u, t)
    \/ StoreLogout
    \/ \E pr \in Profiles : StoreUpdateUserProfile(pr)

\* the application is opened at the home page
StoreInit == Init /\ pathname = "/"

StoreSpec == StoreInit /\ [][StoreNext]_vars

-----------------------------------------------------------------------------
(* The two risk displays alone, shown a prediction of any percentage *)

\* the percentages a prediction can carry
Percentages == 0..100

\* a prediction of some percentage is at hand, nothing else has happened
TierInit ==
    /\ isAuthenticated = FALSE
    /\ user = Null
    /\ token = Null
    /\ loading = TRUE
    /\ pathname = "/"
    /\ locState = Null
    /\ currentStep = InitialForm.currentStep
    /\ symptoms = InitialForm.symptoms
    /\ prediction \in {[prediction_percentage |-> pc, risk_factors |-> <<>>] : pc \in Percentages}
    /\ formLoading = InitialForm.formLoading
    /\ initPending = FALSE
    /\ loginReqs = <<>>
    /\ registerReqs = <<>>
    /\ profileReqs = <<>>
    /\ predReqs = <<>>
    /\ toasts = <<>>
    /\ crashed = FALSE
    /\ lastOp = Op("mount", "", "")

\* the results step renders getRiskLevel(prediction.prediction_percentage)
ShowResult ==
    /\ lastOp' = Op("getRiskLevel", prediction.prediction_percentage,
                    getRiskLevel(prediction.prediction_percentage))
    /\ UNCHANGED <<authVars, pathname, locState, formVars, loginReqs, registerReqs,
                   profileReqs, predReqs, toasts, crashed>>

\* a row of the prediction history renders getRiskColor(prediction.result_percentage)
ShowHistory ==
    /\ lastOp' = Op("getRiskColor", prediction.prediction_percentage,
                    getRiskColor(prediction.prediction_percentage))
    /\ UNCHANGED <<authVars, pathname, locState, formVars, loginReqs, registerReqs,
                   profileReqs, predReqs, toasts, crashed>>

TierNext == ShowResult \/ ShowHistory

TierSpec == TierInit /\ [][TierNext]_vars

-----------------------------------------------------------------------------
(* The registration page alone, given a password of every combination of the *)
(* five strength criteria                                                    *)

\* registration forms: an email in order or without a dot, any of Passwords, and
\* a confirmation that repeats the password or does not
StrengthForms ==
    {[email |-> e, password |-> pw, confirmPassword |-> IF same THEN pw ELSE <<"q">>] :
        e \in {<<"a", "@", "b", ".", "c">>, <<"a", "@", "b">>},
        pw \in Passwords,
        same \in BOOLEAN}

\* the registration page is open, the startup check is over, nobody is signed in
StrengthInit ==
    /\ isAuthenticated = FALSE
    /\ user = Null
    /\ token = Null
    /\ loading = FALSE
    /\ pathname = "/register"
    /\ locState = Null
    /\ currentStep = InitialForm.currentStep
    /\ symptoms = InitialForm.symptoms
    /\ prediction = InitialForm.prediction
    /\ formLoading = InitialForm.formLoading
    /\ initPending = FALSE
    /\ loginReqs = <<>>
    /\ registerReqs = <<>>
    /\ profileReqs = <<>>
    /\ predReqs = <<>>
    /\ toasts = <<>>
    /\ crashed = FALSE
    /\ lastOp = Op("mount", "", "")

StrengthNext ==
    \/ \E fd \in StrengthForms : RegisterSubmit(fd)
    \/ \E i \in 1..MaxInFlight, o \in Outcomes : RegisterResponse(i, o)

StrengthSpec == StrengthInit /\ [][StrengthNext]_vars

-----------------------------------------------------------------------------
(* Properties *)

C2_RouteGuardDecision ==
    /\ \A D \in ProtectedPaths :
          LET g == ProtectedRoute(Store, D)
          IN /\ g.kind \in {"Pending", "Redirect", "Render"}
             /\ (g.kind = "Pending") <=> loading
             /\ (g.kind = "Redirect") <=> (~loading /\ ~isAuthenticated)
             /\ (g.kind = "Render") <=> (~loading /\ isAuthenticated)
             /\ (g.kind = "Redirect") => (g.to = "/login" /\ g.from = D)
    /\ loading =>
          /\ IsProtected(pathname) => Screen(Store, pathname) = "Spinner"
          /\ Screen(Store, pathname) \notin {"Dashboard", "Profile", "Predictions", "PredictionForm"}
          /\ locState = Null
          /\ lastOp.op = "mount"
    /\ (IsProtected(pathname) /\ ~loading /\ ~crashed) =>
          (isAuthenticated /\ Screen(Store, pathname) = RouteElement(pathname))

\* C2 witness: the application was opened at a protected address and the
\* startup check has not finished
C2_Witness ==
    /\ loading
    /\ pathname = "/predictions"

\* C3: right after logout isAuthenticated is false; and from a state where
\* the guard redirects every protected destination, it keeps doing so after
\* every step except the step of a successful login response.
C3_LogoutThenRedirect ==
    [][ /\ (lastOp'.op \in {"Navbar.handleLogout", "logout"}) =>
              (~isAuthenticated' /\ ~loading')
        /\ (/\ ~isAuthenticated /\ ~loading
            /\ ~(lastOp'.op = "Login.response" /\ lastOp'.out = "ok")) =>
              \A D \in ProtectedPaths :
                  /\ ProtectedRoute(Store', D).kind = "Redirect"
                  /\ Resolve(Store', D, Null).pathname = "/login"
      ]_vars

\* C3 witness: a user who had signed in (a profile update of theirs is still
\* awaiting its response) has logged out, asked for /dashboard and been sent
\* to /login
C3_Witness ==
    /\ ~isAuthenticated
    /\ Len(profileReqs) > 0
    /\ pathname = "/login"
    /\ locState = [from |-> "/dashboard"]

\* C4: the sign-in page remembers the destination the guard redirected from
\* (or /dashboard when there is none), and the step of a successful login
\* response goes to the destination its submission remembered.
C4_ReturnToRememberedDestination ==
    [][ /\ (lastOp'.op = "Login.handleSubmit" /\ lastOp'.out = "request") =>
              /\ Len(loginReqs') = Len(loginReqs) + 1
              /\ loginReqs'[Len(loginReqs')].from =
                    (IF locState = Null THEN "/dashboard" ELSE locState.from)
        /\ (lastOp'.op = "Login.response" /\ lastOp'.out = "ok") =>
              /\ \E i \in DOMAIN loginReqs : loginReqs[i].from = pathname'
              /\ lastOp'.arg = pathname'
              /\ Len(loginReqs') = Len(loginReqs) - 1
        /\ (locState' # locState /\ locState' # Null) =>
              /\ pathname' = "/login"
              /\ locState'.from \in ProtectedPaths
      ]_vars

\* C4 witness: a login succeeded and returned the user to /profile, the
\* destination the guard had remembered
C4_Witness ==
    /\ lastOp.op = "Login.response"
    /\ lastOp.arg = "/profile"
    /\ lastOp.out = "ok"
    /\ pathname = "/profile"
    /\ isAuthenticated

C6_SilentNoOp ==
    (lastOp.op = "Profile.response" /\ lastOp.out \notin {"throw", "unsuccessful"} /\ user = Null)
        => ~crashed

\* C7: with an account present, updateUserProfile(partial) sets exactly the
\* profile fields partial names, keeps every other profile field, the other
\* account fields, the token, isAuthenticated and loading, and throws nothing.
C7_MergeFrame ==
    [][ (lastOp'.op = "updateUserProfile" /\ user # Null) =>
          LET partial == lastOp'.arg
              old == IF "profile" \in DOMAIN user THEN user.profile ELSE <<>>
          IN /\ ~crashed'
             /\ user' # Null
             /\ DOMAIN user' = DOMAIN user \cup {"profile"}
             /\ \A k \in DOMAIN user \ {"profile"} : user'[k] = user[k]
             /\ DOMAIN user'.profile = DOMAIN old \cup DOMAIN partial
             /\ \A k \in DOMAIN partial : user'.profile[k] = partial[k]
             /\ \A k \in DOMAIN old \ DOMAIN partial : user'.profile[k] = old[k]
             /\ token' = token
             /\ isAuthenticated' = isAuthenticated
             /\ loading' = loading
      ]_vars

\* C7 witness: an update that named some fields and left another field of the
\* profile as it was
C7_Witness ==
    /\ lastOp.op = "updateUserProfile"
    /\ lastOp.out = "ok"
    /\ DOMAIN lastOp.arg # {}
    /\ DOMAIN user.profile \ DOMAIN lastOp.arg # {}

\* C8: loading is true initially; it changes only in the startup check, which
\* sets it to false, and no later step sets it back to true.
C8_LoadingFalseOnce ==
    /\ loading = TRUE
    /\ [][ /\ (loading' # loading) =>
                 (loading /\ ~loading' /\ lastOp'.op = "checkExistingSession")
           /\ (lastOp'.op = "checkExistingSession") => (loading /\ ~loading')
           /\ ~loading => ~loading'
         ]_vars

\* C8 witness: the startup check is over and the user has logged in and out again
C8_Witness ==
    /\ ~loading
    /\ lastOp.op = "Navbar.handleLogout"

\* C9: initialize for a type outside the catalog reports the unknown type and
\* goes to /predictions, whatever the profile; for a catalog type with an
\* incomplete profile it reports the incomplete profile and goes to /profile;
\* in both cases no answers are held afterwards.
C9_InitializeFailures ==
    (lastOp.op = "PredictionForm.initialize") =>
        /\ (lastOp.arg \notin CatalogTypes) =>
              /\ lastOp.out = "UnknownAssessmentType"
              /\ pathname = "/predictions"
              /\ toasts = <<Toast("error", "Invalid disease type")>>
              /\ symptoms = <<>>
        /\ (lastOp.arg \in CatalogTypes /\ ~isProfileComplete) =>
              /\ lastOp.out = "ProfileIncomplete"
              /\ pathname = "/profile"
              /\ toasts = <<Toast("error", "Please complete your profile first")>>
              /\ symptoms = <<>>
        /\ (lastOp.arg \in CatalogTypes /\ isProfileComplete) =>
              lastOp.out = "Seeded"

\* C9 witness: an account without a complete profile opened an unknown
\* assessment type, and the unknown type was what the effect reported
C9_Witness ==
    /\ lastOp.op = "PredictionForm.initialize"
    /\ lastOp.arg = UnknownType
    /\ lastOp.out = "UnknownAssessmentType"
    /\ ~isProfileComplete
    /\ pathname = "/predictions"

\* C10: whenever initialize succeeds, the answers are exactly the question
\* keys of the type, each 0, and the phase is Form.
C10_InitializeSeedsForm ==
    (lastOp.op = "PredictionForm.initialize" /\ lastOp.out = "Seeded") =>
        /\ symptoms = [k \in QuestionKeys(lastOp.arg) |-> 0]
        /\ currentStep = "form"

\* the answer map sym has no nonzero answer (the empty map included)
AllZero(sym) == \A k \in DOMAIN sym : sym[k] = 0

\* C11: the form check refuses the empty answer map, and a submit whose answers
\* are all zero issues no scoring request, leaves the phase at Form, keeps the
\* answers and raises the one notification of the check.
C11_AllZeroSubmitRejected ==
    [][ /\ ~validateForm(<<>>)
        /\ (lastOp'.op = "PredictionForm.handleSubmit" /\ AllZero(symptoms)) =>
             /\ lastOp'.out = "invalid"
             /\ predReqs' = predReqs
             /\ currentStep = "form" /\ currentStep' = "form"
             /\ ~formLoading'
             /\ symptoms' = symptoms
             /\ toasts' = <<Toast("error", "Please provide at least some symptom information")>>
      ]_vars

\* C11 witness: a seeded form whose answers are all zero was submitted and refused
C11_Witness ==
    /\ lastOp.op = "PredictionForm.handleSubmit"
    /\ lastOp.arg = ""
    /\ lastOp.out = "invalid"
    /\ DOMAIN symptoms # {}
    /\ AllZero(symptoms)
    /\ currentStep = "form"
    /\ predReqs = <<>>

\* the AssessmentSession that issued the request req is still the active one:
\* its screen is mounted and shows the assessment type it showed at the submit
StillActive(req) == ~req.orphan /\ ~req.replaced

\* the risk factors are in descending order of impact
SortedByImpact(factors) ==
    \A i \in 1..(Len(factors) - 1) : factors[i].impact >= factors[i + 1].impact

\* C12: after a successful scoring response that carries a result, for a
\* submission of a catalog type with a nonzero answer whose session is still
\* the active one, the phase is Result, the stored result is the returned one,
\* and its risk factors are sorted by descending impact.
C12_SuccessStoresSortedResult ==
    (/\ lastOp.op = "PredictionForm.response"
     /\ lastOp.out = "ok"
     /\ StillActive(lastOp.arg.req)
     /\ lastOp.arg.data # Null) =>
        /\ lastOp.arg.req.disease \in CatalogTypes
        /\ ~AllZero(lastOp.arg.req.symptoms)
        /\ currentStep = "results"
        /\ ~formLoading
        /\ prediction = lastOp.arg.data
        /\ prediction.disease = lastOp.arg.req.disease
        /\ prediction.prediction_percentage \in 5..95
        /\ Len(prediction.risk_factors) = 3
        /\ SortedByImpact(prediction.risk_factors)

\* C12 witness: a result is stored after a successful response, and the factor
\* the facade computed first is not the first of the stored result
C12_Witness ==
    /\ lastOp.op = "PredictionForm.response"
    /\ lastOp.out = "ok"
    /\ StillActive(lastOp.arg.req)
    /\ currentStep = "results"
    /\ prediction # Null
    /\ prediction.risk_factors[1].name # "High BMI"

\* the scoring requests in flight that belong to the mounted PredictionForm
LiveRequests == {i \in DOMAIN predReqs : ~predReqs[i].orphan}

\* C13: when the scoring call of a submission whose session is still the
\* active one throws, the phase is Form again, the answers are those that were
\* submitted, no result is stored, exactly one error notification is raised
\* and the step issues no scoring request; a scoring request is only ever
\* issued by a submit of the user.
C13_FailureReturnsToForm ==
    [][ /\ (/\ lastOp'.op = "PredictionForm.response"
             /\ lastOp'.out \in {"throw", "unauthorized"}
             /\ StillActive(lastOp'.arg.req)) =>
                /\ currentStep = "loading"
                /\ currentStep' = "form"
                /\ ~formLoading'
                /\ symptoms' = lastOp'.arg.req.symptoms
                /\ symptoms' = symptoms
                /\ prediction' = Null
                /\ toasts' = <<Toast("error", "Failed to generate prediction. Please try again.")>>
                /\ Len(predReqs') = Len(predReqs) - 1
                /\ LiveRequests' = {}
        /\ (Len(predReqs') > Len(predReqs)) =>
                /\ lastOp'.op = "PredictionForm.handleSubmit"
                /\ lastOp'.out = "request"
                /\ Len(predReqs') = Len(predReqs) + 1
      ]_vars

\* C13 witness: the scoring call of a submission with a nonzero answer threw and
\* the form is on screen again with that answer
C13_Witness ==
    /\ lastOp.op = "PredictionForm.response"
    /\ lastOp.out = "throw"
    /\ StillActive(lastOp.arg.req)
    /\ currentStep = "form"
    /\ ~AllZero(symptoms)
    /\ Len(toasts) = 1

C15_SubmittingIsLeft ==
    /\ (lastOp.op = "PredictionForm.response" /\ StillActive(lastOp.arg.req)) =>
           \/ currentStep = "form"
           \/ currentStep = "results" /\ prediction # Null
    /\ (FormMounted(Store, pathname) /\ currentStep = "loading") => LiveRequests # {}

\* C16: the response to a submission whose session is no longer the active one
\* (its screen was unmounted, or shows another assessment type) changes neither
\* the phase nor the result on screen and raises no notification.
C16_StaleResponseDiscarded ==
    [][ (lastOp'.op = "PredictionForm.response" /\ ~StillActive(lastOp'.arg.req)) =>
            /\ currentStep' = currentStep
            /\ prediction' = prediction
            /\ toasts' = <<>>
      ]_vars

\* an assessment screen is on screen and its effect has run
SessionActive == FormMounted(Store, pathname) /\ ~initPending /\ ~crashed

C18_NoPartialResult ==
    /\ (FormMounted(Store, pathname) /\ currentStep = "results") =>
           /\ prediction # Null
           /\ {"prediction_percentage", "risk_factors"} \subseteq DOMAIN prediction
    /\ (/\ lastOp.op = "PredictionForm.response"
        /\ lastOp.out = "ok"
        /\ StillActive(lastOp.arg.req)
        /\ lastOp.arg.data = Null) =>
           currentStep = "form"

\* C19: after the response of a call that sent the token reported the token
\* rejected, the session is invalidated: isAuthenticated is false, token and
\* user are absent, and every protected destination resolves to /login.
C19_UnauthorizedInvalidatesSession ==
    (lastOp.op \in {"Profile.response", "PredictionForm.response"} /\ lastOp.out = "unauthorized") =>
        /\ ~isAuthenticated
        /\ token = Null
        /\ user = Null
        /\ \A p \in ProtectedPaths : Resolve(Store, p, Null).pathname = "/login"

\* C20: after a response whose success flag is false, the caller has applied
\* none of its success effects and has raised exactly one error notification.
C20_UnsuccessfulIsFailure ==
    [][ (lastOp'.op \in {"Login.response", "Profile.response", "PredictionForm.response"}
         /\ lastOp'.out = "unsuccessful") =>
            /\ Len(toasts') = 1
            /\ toasts'[1].type = "error"
            /\ Store' = Store
            /\ pathname' = pathname
            /\ prediction' = prediction
            /\ currentStep' # "results"
      ]_vars

\* C21: a submit of the sign-in, registration, profile or assessment form that
\* fails the form's own validation invokes no facade operation and leaves the
\* session, the location and the assessment workflow as they were.
C21_LocalValidationStaysLocal ==
    [][ ( \/ lastOp'.op = "Login.handleSubmit" /\ LoginErrors(lastOp'.arg) # {}
          \/ lastOp'.op = "Register.handleSubmit" /\ RegisterErrors(lastOp'.arg) # {}
          \/ lastOp'.op = "Profile.handleSubmit" /\ ProfileErrors(lastOp'.arg) # {}
          \/ lastOp'.op = "PredictionForm.handleSubmit" /\ AllZero(symptoms) ) =>
            /\ lastOp'.out = "invalid"
            /\ UNCHANGED <<loginReqs, registerReqs, profileReqs, predReqs>>
            /\ UNCHANGED <<authVars, pathname, locState, formVars, crashed>>
      ]_vars

\* C21 witness: a sign-in form whose email does not pass the check was
\* submitted, and no login call is awaiting its response
C21_Witness ==
    /\ lastOp.op = "Login.handleSubmit"
    /\ LoginErrors(lastOp.arg) = {"email"}
    /\ loginReqs = <<>>
    /\ ~isAuthenticated

\* the band of the threshold table for the percentage pc
Tier(pc) ==
    IF pc < 25 THEN "Low" ELSE IF pc < 50 THEN "Moderate"
    ELSE IF pc < 75 THEN "High" ELSE "Very High"

\* C22: for every percentage from 0 to 100 the results display names the band
\* of the threshold table (Low below 25, Moderate below 50, High below 75,
\* Very High from 75), and the history display gives the percentage the colours
\* the results display gives it, so both put it into the same band.
C22_OneTierTable ==
    /\ (lastOp.op = "getRiskLevel") =>
           /\ lastOp.out.level = Tier(lastOp.arg)
           /\ <<lastOp.out.color, lastOp.out.bgColor>> = getRiskColor(lastOp.arg)
    /\ (lastOp.op = "getRiskColor") =>
           /\ lastOp.out = <<getRiskLevel(lastOp.arg).color, getRiskLevel(lastOp.arg).bgColor>>
           /\ \A pc \in Percentages :
                  (getRiskColor(pc) = lastOp.out) <=> (Tier(pc) = Tier(lastOp.arg))

\* C22 witness: the history display has coloured the boundary percentage 25
C22_Witness ==
    /\ lastOp.op = "getRiskColor"
    /\ lastOp.arg = 25
    /\ lastOp.out = <<"text-yellow-600", "bg-yellow-100">>

\* the Session of the specification: isAuthenticated, credential and account
Session == <<isAuthenticated, token, user>>

C24_ResetDiscardsSession ==
    (lastOp.op = "handleBack") =>
        /\ (lastOp.out = "results") =>
               /\ currentStep = "form"
               /\ prediction = Null
               /\ symptoms = initialSymptoms(diseaseTypeOf(pathname))
        /\ (lastOp.out # "results") => pathname = "/predictions"

\* C25: logout is idempotent: logging out of a logged-out session changes
\* nothing, the session a logout leaves is anonymous (flag lowered, token and
\* account absent), and logout never writes the loading flag.
C25_LogoutIdempotent ==
    /\ logout(logout(Store)) = logout(Store)
    /\ logout(Store).loading = loading
    /\ (lastOp.op = "logout") =>
           /\ ~isAuthenticated
           /\ token = Null
           /\ user = Null
           /\ logout(Store) = Store

\* a logout has been made after the startup check finished
C25_Witness ==
    /\ lastOp.op = "logout"
    /\ ~loading
    /\ logout(Store) = Store

\* C26: eligibility is decided alike everywhere: in every state the card's button
\* is enabled, the dashboard's new-prediction action is enabled, a card click
\* goes to the assessment form and the effect of the assessment route seeds the
\* form, each exactly when isProfileComplete() holds; the card click and the
\* effect that have just run took the branch that isProfileComplete() names.
C26_OneEligibilityDecision ==
    /\ ~StartAssessmentDisabled(user) <=> isProfileComplete
    /\ ~NewPredictionDisabled(user) <=> isProfileComplete
    /\ \A d \in DiseaseCardIds :
           /\ (handlePredictionClick(user, d).to = predictPath(d)) <=> isProfileComplete
           /\ (initOutcome(d, isProfileComplete) = "Seeded") <=> isProfileComplete
    /\ (lastOp.op = "handlePredictionClick") =>
           /\ (pathname = predictPath(lastOp.arg)) <=> isProfileComplete
           /\ ~isProfileComplete => pathname = "/profile"
    /\ (lastOp.op = "Dashboard.newPrediction") =>
           ((lastOp.out = "/predictions") <=> isProfileComplete)
    /\ (lastOp.op = "PredictionForm.initialize" /\ lastOp.arg \in DiseaseCardIds) =>
           ((lastOp.out = "Seeded") <=> isProfileComplete)

\* a card was clicked with a complete profile and the form of its type is on screen
C26_Witness ==
    /\ lastOp.op = "handlePredictionClick"
    /\ isProfileComplete
    /\ ~StartAssessmentDisabled(user)
    /\ pathname = predictPath(lastOp.arg)

\* C27: a step that issues a scoring request starts in a state where the session
\* is authenticated, the profile is complete, the type of the route is in the
\* catalog, the step shown is the form and some answer is not zero.
C27_RequestOnlyWhenEligible ==
    [][ (Len(predReqs') > Len(predReqs)) =>
            /\ isAuthenticated
            /\ isProfileComplete
            /\ FormMounted(Store, pathname)
            /\ diseaseTypeOf(pathname) \in CatalogTypes
            /\ currentStep = "form"
            /\ ~AllZero(symptoms)
            /\ predReqs'[Len(predReqs')].disease = diseaseTypeOf(pathname) ]_vars

\* C28: the session goes from anonymous to authenticated only in the step of a
\* successful login response, which leaves a token and an account in the
\* session; a login rejected by the form check, the sending of a login, a
\* failed or unsuccessful login response and every step of a registration
\* (rejected, sent, answered with success or with failure) leave an anonymous
\* session anonymous.
C28_OnlyLoginAuthenticates ==
    [][ /\ (~isAuthenticated /\ isAuthenticated') =>
              /\ lastOp'.op = "Login.response"
              /\ lastOp'.out = "ok"
              /\ Len(loginReqs') < Len(loginReqs)
              /\ token' # Null
              /\ user' # Null
        /\ ( /\ ~isAuthenticated
             /\ \/ lastOp'.op \in {"Login.handleSubmit", "Register.handleSubmit",
                                   "Register.handleChange", "Register.response"}
                \/ lastOp'.op = "Login.response" /\ lastOp'.out # "ok" ) =>
              /\ ~isAuthenticated'
              /\ token' = Null
              /\ user' = Null
      ]_vars

\* a successful login response has just been handled and the session is authenticated
C28_Witness ==
    /\ lastOp.op = "Login.response"
    /\ lastOp.out = "ok"
    /\ isAuthenticated
    /\ token # Null
    /\ user # Null
    /\ toasts = <<Toast("success", "Login successful! Welcome back.")>>

\* C29: every profile update sent carries an age from 13 to 120, a weight from
\* 20 to 200 and a height from 50 to 300; a profile that is complete stays
\* complete through every profile step, and within a login (until the next
\* successful login response puts another account in the session) it becomes
\* incomplete only by a logout.
C29_CompletenessMonotone ==
    [][ /\ \A i \in DOMAIN profileReqs' :
              /\ profileReqs'[i].profileData.age \in 13..120
              /\ profileReqs'[i].profileData.weight \in 20..200
              /\ profileReqs'[i].profileData.height \in 50..300
        /\ (profileComplete(user) /\ lastOp'.op \in {"Profile.handleSubmit", "Profile.response"}) =>
              profileComplete(user')
        /\ (profileComplete(user) /\ ~profileComplete(user')
            /\ ~(lastOp'.op = "Login.response" /\ lastOp'.out = "ok")) =>
              /\ lastOp'.op = "Navbar.handleLogout"
              /\ user' = Null
      ]_vars

\* a profile update has just been applied to a profile that was complete
\* before it, with the least values the form lets pass
C29_Witness ==
    /\ lastOp.op = "Profile.response"
    /\ lastOp.out = "ok"
    /\ profileComplete(user)
    /\ user.id = DummyUser.id
    /\ user.profile.age = 13
    /\ user.profile.weight = 20

\* C30: for the password of every registration form typed and submitted,
\* checkPasswordStrength gives a score from 0 to 5 with a strength label and a
\* colour that are defined, the page survives showing them, and a form whose
\* email and confirmation are in order is accepted (its request sent) exactly
\* when the score is at least 3.
C30_StrengthDefinedAndGate ==
    (lastOp.op \in {"Register.handleSubmit", "Register.handleChange"}) =>
        LET fd == lastOp.arg
            r == checkPasswordStrength(fd.password)
        IN /\ r.score \in 0..5
           /\ r.strength # Undefined
           /\ r.color # Undefined
           /\ ~crashed
           /\ (EmailPattern(fd.email) /\ fd.confirmPassword = fd.password) =>
                  ((lastOp.out = "request") <=> (r.score >= 3))

====
